---------------------------- MODULE Spec2Model ----------------------------
(***************************************************************************)
(* Model of the dmview projection-surface server (server/app).             *)
(*                                                                         *)
(*   state.py   SessionManager: the in-memory session store                *)
(*   main.py    the HTTP handlers, the WebSocketManager and the            *)
(*              websocket endpoint                                         *)
(*                                                                         *)
(* Execution model.  The server is a single asyncio event loop.  A         *)
(* coroutine runs until it awaits something that really suspends.  The     *)
(* bodies guarded by SessionManager._lock and WebSocketManager._lock hold  *)
(* no await, so neither lock is ever contended and acquiring it never      *)
(* suspends.  The suspension points are therefore the transport awaits:    *)
(* websocket.accept, connection.send_json, websocket.receive_text and      *)
(* file.read.  Each action below is the code between two suspension        *)
(* points; a send hands the message to the transport (or raises) when it   *)
(* is called and suspends afterwards.                                      *)
(*                                                                         *)
(* The specifications share the definitions:                               *)
(*   Spec       the application: concurrent HTTP requests and websocket    *)
(*              connections                                                *)
(*   SpecStore  the SessionManager API called directly, one call at a      *)
(*              time (every call is atomic, see above)                     *)
(*   SpecTokens the token operations of SessionManager on one session,     *)
(*              with stats and with up to three tokens                     *)
(*   SpecAbort  the token requests of the application, with callers that   *)
(*              go away while their request is broadcasting                *)
(*   SpecLock   the upload and the map url requests with every entry to    *)
(*              and exit from SessionManager._lock as a step of its own    *)
(***************************************************************************)
EXTENDS Integers, Sequences, FiniteSets, TLC

VARIABLES
    sessions,     \* SessionManager._sessions: normalized id -> SessionState
    clock,        \* the value datetime.utcnow() returned last; every call of
                  \* utcnow() returns a later time than the call before
    issued,       \* number of uuid4() values handed out to tokens and presets;
                  \* the n-th value is n, so no two are equal
    connections,  \* WebSocketManager._connections: session id -> set of sockets
    req,          \* per HTTP request: position and locals of its handler
    ws,           \* per websocket: position and locals of websocket_endpoint
    up,           \* per websocket: the peer is still there
    received,     \* per websocket: the JSON messages the peer was sent
    log,          \* history: per session id, the snapshots in commit order
    last,         \* SpecStore: the latest SessionManager call and its outcome
    lock          \* SessionManager._lock: 0 when free, else the request that
                  \* is inside "async with self._lock"

vars == <<sessions, clock, issued, connections, req, ws, up, received, log, last, lock>>

-----------------------------------------------------------------------------
(* Bounds of the model *)

\* number of HTTP requests of a run
MaxReqs == 3
\* number of websocket connections of a run
MaxSockets == 2
\* number of SessionManager calls that stamp a timestamp (SpecStore)
MaxCalls == 4
\* number of SessionManager calls that stamp a timestamp (SpecTokens)
MaxTokenCalls == 5
\* number of chunks of an uploaded file (SpecLock)
MaxChunks == 2

-----------------------------------------------------------------------------
(* Values *)

\* Optional[T]: None is the empty set, a value v is {v}
None == {}
Some(v) == {v}
Get(o) == CHOOSE v \in o : TRUE

\* str as a sequence of characters over a small alphabet
Chars == {"a", "A", "b", "B", " "}

\* str.upper() on one character
UpperChar(c) ==
    CASE c = "a" -> "A"
      [] c = "b" -> "B"
      [] OTHER -> c

\* str.upper()
Upper(s) == [i \in 1..Len(s) |-> UpperChar(s[i])]

RECURSIVE LStrip(_)
LStrip(s) == IF s # <<>> /\ Head(s) = " " THEN LStrip(Tail(s)) ELSE s

RECURSIVE RStrip(_)
RStrip(s) ==
    IF s # <<>> /\ s[Len(s)] = " " THEN RStrip(SubSeq(s, 1, Len(s) - 1)) ELSE s

\* str.strip()
Strip(s) == RStrip(LStrip(s))

\* the values of a sequence
Range(s) == {s[i] : i \in 1..Len(s)}

\* [f(e) for e in s if Keep(e)] for f the identity
RECURSIVE Filter(_, _)
Filter(s, keep) ==
    IF s = <<>> THEN <<>>
    ELSE IF Head(s) \in keep THEN <<Head(s)>> \o Filter(Tail(s), keep)
         ELSE Filter(Tail(s), keep)

-----------------------------------------------------------------------------
(* models.py *)

(* Numbers.  A coordinate or a zoom is a whole number of ten-thousandths:   *)
(* 1.0 is 10000.  A rotation is a whole number of 1/32 degree: 360 degrees *)
(* is 11520.  The fields kind, color, visible, notes and grid_size, which  *)
(* no operation computes with, are left out of the records.                *)

\* WarpPoint(x=..., y=...)
WarpPoint(x, y) == [x |-> x, y |-> y]

\* DEFAULT_WARP, the four corners
DEFAULT_WARP ==
    <<WarpPoint(500, 500), WarpPoint(9500, 500),
      WarpPoint(9500, 9500), WarpPoint(500, 9500)>>

\* MapView(center=..., zoom=..., rotation=...)
MapView(center, zoom, rotation) ==
    [center |-> center, zoom |-> zoom, rotation |-> rotation]

\* MapState(): image_url None, the default warp, the default view
MapState ==
    [image_url |-> None, warp |-> DEFAULT_WARP,
     view |-> MapView(WarpPoint(5000, 5000), 10000, 0)]

\* a dict with no key
EmptyDict == [k \in {} |-> 0]

\* the fields of TokenStats
StatsKeys == {"hp", "max_hp", "initiative", "spell_slots"}

\* TokenStats(hp=..., max_hp=..., initiative=..., spell_slots=...)
TokenStats(hp, max_hp, initiative, spell_slots) ==
    [hp |-> hp, max_hp |-> max_hp, initiative |-> initiative,
     spell_slots |-> spell_slots]

\* a TokenStats parsed from a request body: the object and the keys the body
\* gave (its model_fields_set); a key the body left out has its default
ParsedStats(stats, fields_set) == [stats |-> stats, fields_set |-> fields_set]

\* TokenStats() of a request that gave no stats
DefaultStats == ParsedStats(TokenStats(None, None, None, EmptyDict), {})

\* SessionState(id=..., name=...): empty collections, updated_at = utcnow()
SessionState(id, name, now) ==
    [id |-> id, name |-> name, map |-> MapState, tokens |-> <<>>,
     token_order |-> <<>>, presets |-> <<>>, updated_at |-> now]

\* Token(id=..., name=..., x=..., y=..., stats=...)
Token(id, name, x, y, stats) ==
    [id |-> id, name |-> name, x |-> x, y |-> y, stats |-> stats]

\* TokenPreset(id=..., name=...)
TokenPreset(id, name) == [id |-> id, name |-> name]

-----------------------------------------------------------------------------
(* state.py: helpers *)

Min(a, b) == IF a < b THEN a ELSE b
Max(a, b) == IF a > b THEN a ELSE b

\* _clamp_unit: None stays None, a value is clamped to [0.0, 1.0]
_clamp_unit(value) ==
    IF value = None THEN None ELSE Some(Max(0, Min(10000, Get(value))))

\* _clamp_or_default
_clamp_or_default(value, default) ==
    IF value # None THEN Get(_clamp_unit(value)) ELSE default

Abs(v) == IF v < 0 THEN -v ELSE v

(* A rotation is a binary float, and "%" on floats rounds its result.  The *)
(* model keeps the rounding with a significand of 12 bits: from 128        *)
(* degrees on the floats are 1/16 degree apart, from 256 degrees 1/8, from *)
(* 512 degrees 1/4; below 128 degrees every multiple of 1/32 is a float.   *)

\* the distance between the floats around v
Ulp(v) ==
    IF Abs(v) < 4096 THEN 1
    ELSE IF Abs(v) < 8192 THEN 2
    ELSE IF Abs(v) < 16384 THEN 4
    ELSE 8

\* the float nearest to v, the even one of two that are equally near
RoundFloat(v) ==
    LET u == Ulp(v)
        below == (v \div u) * u
        rest == v - below
    IN IF 2 * rest < u THEN below
       ELSE IF 2 * rest > u THEN below + u
       ELSE IF (below \div u) % 2 = 0 THEN below ELSE below + u

\* C fmod(x, y) for y > 0: exact, with the sign of x
fmod(x, y) == IF x >= 0 THEN x % y ELSE -((-x) % y)

\* float.__mod__(x, w): "mod = fmod(x, w); if mod and the signs of mod and w
\* differ: mod += w", the sum rounded to a float
FloatMod(x, w) ==
    LET mod == fmod(x, w)
    IN IF mod # 0 /\ ((w < 0) # (mod < 0)) THEN RoundFloat(mod + w) ELSE mod

\* {token.id: token for token in tokens}: the keys, in insertion order
RECURSIVE DictKeys(_, _)
DictKeys(ids, have) ==
    IF ids = <<>> THEN <<>>
    ELSE IF Head(ids) \in have THEN DictKeys(Tail(ids), have)
         ELSE <<Head(ids)>> \o DictKeys(Tail(ids), have \cup {Head(ids)})

\* {token.id: token for token in tokens}[id]: the last token of that id
DictGet(tokens, id) ==
    tokens[CHOOSE i \in 1..Len(tokens) :
              /\ tokens[i].id = id
              /\ \A j \in (i + 1)..Len(tokens) : tokens[j].id # id]

\* the loop "for token_id in order: token = id_to_token.pop(token_id, None)":
\* the ids popped, in the order of the pops
RECURSIVE Popped(_, _)
Popped(order, keys) ==
    IF order = <<>> THEN <<>>
    ELSE IF Head(order) \in keys
         THEN <<Head(order)>> \o Popped(Tail(order), keys \ {Head(order)})
         ELSE Popped(Tail(order), keys)

\* the reordering writing token_order and leaving the token list as it was
Reordered_order_only(session, order) ==
    LET ids == [i \in 1..Len(session.tokens) |-> session.tokens[i].id]
        keys == DictKeys(ids, {})
        seen == Popped(order, Range(keys))
        remaining == Filter(keys, Range(keys) \ Range(seen))
    IN [session EXCEPT !.token_order = seen \o remaining]

\* the tail shared by _sync_token_order and set_token_order: the tokens named
\* by order first, then the tokens left in the dictionary
Reordered(session, order) ==
    LET ids == [i \in 1..Len(session.tokens) |-> session.tokens[i].id]
        keys == DictKeys(ids, {})
        seen == Popped(order, Range(keys))
        remaining == Filter(keys, Range(keys) \ Range(seen))
        new_order == seen \o remaining
    IN [session EXCEPT
          !.tokens = [i \in 1..Len(new_order) |-> DictGet(session.tokens, new_order[i])],
          !.token_order = new_order]

\* _sync_token_order appending every token's id instead of the remaining ones
_sync_token_order_all(session) ==
    IF session.tokens = <<>> THEN [session EXCEPT !.token_order = <<>>]
    ELSE LET r == Reordered(session, session.token_order)
         IN [r EXCEPT !.token_order =
                Popped(session.token_order,
                       {session.tokens[i].id : i \in 1..Len(session.tokens)})
                \o [i \in 1..Len(session.tokens) |-> session.tokens[i].id]]

\* SessionManager._sync_token_order
_sync_token_order(session) ==
    IF session.tokens = <<>> THEN [session EXCEPT !.token_order = <<>>]
    ELSE Reordered(session, session.token_order)

-----------------------------------------------------------------------------
(* state.py: SessionManager.  Every method is an operator from the store   *)
(* (and the values of utcnow() and uuid4() it draws) to an outcome         *)
(* [err, store, ret]: err is "" or the error raised, store the store       *)
(* afterwards, ret the value returned.                                     *)

Ok(store, ret) == [err |-> "", store |-> store, ret |-> ret]
Raise(err, store) == [err |-> err, store |-> store, ret |-> None]

\* create_session without the check for an id that exists
create_session_overwrites(store, payload, gen, now) ==
    LET given == payload.session_id # None /\ Get(payload.session_id) # <<>>
        first == Strip(IF given THEN Get(payload.session_id) ELSE gen)
        session_id == IF first = <<>> THEN gen ELSE first
        normalized == Upper(session_id)
        session == SessionState(normalized, payload.name, now)
    IN [err |-> "",
        store |-> [k \in DOMAIN store \cup {normalized} |->
                     IF k = normalized THEN session ELSE store[k]],
        ret |-> Some(session)]

\* SessionManager.create_session; gen is what _generate_session_id returns
create_session(store, payload, gen, now) ==
    LET given == payload.session_id # None /\ Get(payload.session_id) # <<>>
        first == Strip(IF given THEN Get(payload.session_id) ELSE gen)
        session_id == IF first = <<>> THEN gen ELSE first
        normalized == Upper(session_id)
    IN IF normalized \in DOMAIN store
       THEN Raise("Conflict", store)
       ELSE LET session == SessionState(normalized, payload.name, now)
            IN Ok([k \in DOMAIN store \cup {normalized} |->
                      IF k = normalized THEN session ELSE store[k]],
                  Some(session))

\* SessionManager.require_session
require_session(store, session_id) ==
    LET normalized == Upper(session_id)
    IN IF normalized \notin DOMAIN store
       THEN Raise("NotFound", store)
       ELSE Ok(store, Some(store[normalized]))

\* mutate_session stamping updated_at before it runs the mutator
mutate_session_stamps_first(store, session_id, mutated, now) ==
    LET normalized == Upper(session_id)
    IN IF normalized \notin DOMAIN store
       THEN [err |-> "NotFound", store |-> store, ret |-> None]
       ELSE LET m == mutated
                synced == _sync_token_order(m.session)
                session == [(IF m.err # "" THEN m.session ELSE synced)
                               EXCEPT !.updated_at = now]
            IN [err |-> m.err,
                store |-> [store EXCEPT ![normalized] = session],
                ret |-> m.ret]

\* self._sessions.get(normalized), for a session that is there
Session(store, session_id) == store[Upper(session_id)]

\* SessionManager.mutate_session.  mutated stands for "mutator(session)" and
\* is evaluated only where the code calls the mutator.  It is [err, session,
\* ret]: the session as the mutator left it, also when it raised.
mutate_session(store, session_id, mutated, now) ==
    LET normalized == Upper(session_id)
    IN IF normalized \notin DOMAIN store
       THEN Raise("NotFound", store)
       ELSE LET m == mutated
            IN IF m.err # ""
               THEN Raise(m.err, [store EXCEPT ![normalized] = m.session])
               ELSE LET synced == _sync_token_order(m.session)
                        session == [synced EXCEPT !.updated_at = now]
                    IN [err |-> "",
                        store |-> [store EXCEPT ![normalized] = session],
                        ret |-> m.ret]

Done(session, ret) == [err |-> "", session |-> session, ret |-> ret]
Failed(err, session) == [err |-> err, session |-> session, ret |-> None]

\* set_map_url and set_map_image: the mutator
set_map_url_mutator(session, url) ==
    Done([session EXCEPT !.map.image_url = Some(url)], None)

\* SessionManager.set_map_url
set_map_url(store, session_id, payload, now) ==
    mutate_session(store, session_id,
                   set_map_url_mutator(Session(store, session_id), payload.url), now)

\* SessionManager.set_map_image
set_map_image(store, session_id, url, now) ==
    mutate_session(store, session_id,
                   set_map_url_mutator(Session(store, session_id), url), now)

\* set_warp: the mutator
set_warp_mutator(session, warp) == Done([session EXCEPT !.map.warp = warp], None)

\* SessionManager.set_warp
set_warp(store, session_id, warp, now) ==
    mutate_session(store, session_id,
                   set_warp_mutator(Session(store, session_id), warp), now)

\* set_map_view: the mutator.  half_width is 0.5 / zoom, which is exact for
\* the zooms of MapViews
set_map_view_mutator(session, view) ==
    LET center == view.center
        zoom == Max(2000, Min(80000, view.zoom))
        rotation == FloatMod(view.rotation, 11520)
        half_width == 50000000 \div zoom
    IN Done([session EXCEPT !.map.view =
               MapView(WarpPoint(
                           Max(half_width,
                               Min(10000 - half_width,
                                   _clamp_or_default(Some(center.x), 5000))),
                           Max(half_width,
                               Min(10000 - half_width,
                                   _clamp_or_default(Some(center.y), 5000)))),
                       zoom, rotation)],
            None)

\* SessionManager.set_map_view
set_map_view(store, session_id, view, now) ==
    mutate_session(store, session_id,
                   set_map_view_mutator(Session(store, session_id), view), now)

\* add_token storing a list of the new token alone
add_token_mutator_replaces(session, payload, uuid) ==
    LET token == Token(uuid, payload.name,
                       _clamp_or_default(payload.x, 5000),
                       _clamp_or_default(payload.y, 5000),
                       payload.stats.stats)
    IN [err |-> "",
        session |-> [session EXCEPT !.tokens = <<token>>,
                                    !.token_order = Append(@, token.id)],
        ret |-> Some(token)]

\* add_token: the mutator; uuid is the value of uuid4().hex
add_token_mutator(session, payload, uuid) ==
    LET token == Token(uuid, payload.name,
                       _clamp_or_default(payload.x, 5000),
                       _clamp_or_default(payload.y, 5000),
                       payload.stats.stats)
    IN Done([session EXCEPT !.tokens = Append(@, token),
                            !.token_order = Append(@, token.id)],
            Some(token))

\* SessionManager.add_token
add_token(store, session_id, payload, uuid, now) ==
    mutate_session(store, session_id,
                   add_token_mutator(Session(store, session_id), payload, uuid), now)

\* "v is not None" for the value of a stats key; spell_slots is a dict
NotNone(k, v) == IF k = "spell_slots" THEN TRUE ELSE v # None

\* stats.model_dump(exclude_unset=True): the keys of the dict
DumpedKeys(parsed) == parsed.fields_set

\* update_token replacing the stats by the stats of the request
merged_stats_replaces(stats, update) == [k \in StatsKeys |-> update.stats[k]]

\* merged = stats.model_dump(); merged.update({k: v for k, v in
\* update.model_dump(exclude_unset=True).items() if v is not None});
\* TokenStats(**merged)
merged_stats(stats, update) ==
    [k \in StatsKeys |->
        IF k \in DumpedKeys(update) /\ NotNone(k, update.stats[k])
        THEN update.stats[k] ELSE stats[k]]

\* update_token: the fields of one token after the partial update
updated_token(token, payload) ==
    [token EXCEPT
       !.name = IF payload.name # None THEN Get(payload.name) ELSE @,
       !.x = IF payload.x # None THEN _clamp_or_default(payload.x, @) ELSE @,
       !.y = IF payload.y # None THEN _clamp_or_default(payload.y, @) ELSE @,
       !.stats = IF payload.stats # None
                 THEN merged_stats(@, Get(payload.stats)) ELSE @]

\* update_token: the mutator, which updates the first token of that id
update_token_mutator(session, token_id, payload) ==
    LET hits == {i \in 1..Len(session.tokens) : session.tokens[i].id = token_id}
    IN IF hits = {}
       THEN Failed("NotFound", session)
       ELSE LET i == CHOOSE k \in hits : \A j \in hits : k <= j
                token == updated_token(session.tokens[i], payload)
            IN Done([session EXCEPT !.tokens[i] = token], Some(token))

\* SessionManager.update_token
update_token(store, session_id, token_id, payload, now) ==
    mutate_session(store, session_id,
                   update_token_mutator(Session(store, session_id), token_id, payload), now)

\* [e for e in seq if e.id != id]
RECURSIVE WithoutId(_, _)
WithoutId(seq, id) ==
    IF seq = <<>> THEN <<>>
    ELSE IF Head(seq).id = id THEN WithoutId(Tail(seq), id)
         ELSE <<Head(seq)>> \o WithoutId(Tail(seq), id)

\* delete_token raising NotFound for an id the session has no token of
delete_token_mutator_strict(session, token_id) ==
    IF \A i \in 1..Len(session.tokens) : session.tokens[i].id # token_id
    THEN [err |-> "NotFound", session |-> session, ret |-> None]
    ELSE [err |-> "", ret |-> None,
          session |-> [session EXCEPT
                         !.tokens = WithoutId(@, token_id),
                         !.token_order = Filter(@, Range(@) \ {token_id})]]

\* delete_token: the mutator
delete_token_mutator(session, token_id) ==
    Done([session EXCEPT
            !.tokens = WithoutId(@, token_id),
            !.token_order = Filter(@, Range(@) \ {token_id})],
         None)

\* SessionManager.delete_token
delete_token(store, session_id, token_id, now) ==
    mutate_session(store, session_id,
                   delete_token_mutator(Session(store, session_id), token_id), now)

\* set_token_order keeping the tokens that the order names and no others
set_token_order_mutator_named_only(session, payload) ==
    LET r == Reordered(session, payload.order)
        named == Len(Popped(payload.order, Range(r.token_order)))
    IN [err |-> "", ret |-> None,
        session |-> [r EXCEPT !.tokens = SubSeq(@, 1, named),
                              !.token_order = SubSeq(@, 1, named)]]

\* set_token_order: the mutator
set_token_order_mutator(session, payload) ==
    Done(Reordered(session, payload.order), None)

\* SessionManager.set_token_order
set_token_order(store, session_id, payload, now) ==
    mutate_session(store, session_id,
                   set_token_order_mutator(Session(store, session_id), payload), now)

\* add_preset: the mutator
add_preset_mutator(session, payload, uuid) ==
    LET preset == TokenPreset(uuid, payload.name)
    IN Done([session EXCEPT !.presets = Append(@, preset)], Some(preset))

\* SessionManager.add_preset
add_preset(store, session_id, payload, uuid, now) ==
    mutate_session(store, session_id,
                   add_preset_mutator(Session(store, session_id), payload, uuid), now)

\* update_preset: the mutator
update_preset_mutator(session, preset_id, payload) ==
    LET hits == {i \in 1..Len(session.presets) : session.presets[i].id = preset_id}
    IN IF hits = {}
       THEN Failed("NotFound", session)
       ELSE LET i == CHOOSE k \in hits : \A j \in hits : k <= j
                preset == [session.presets[i] EXCEPT
                             !.name = IF payload.name # None
                                      THEN Get(payload.name) ELSE @]
            IN Done([session EXCEPT !.presets[i] = preset], Some(preset))

\* SessionManager.update_preset
update_preset(store, session_id, preset_id, payload, now) ==
    mutate_session(store, session_id,
                   update_preset_mutator(Session(store, session_id), preset_id, payload), now)

\* delete_preset: the mutator
delete_preset_mutator(session, preset_id) ==
    Done([session EXCEPT !.presets = WithoutId(@, preset_id)], None)

\* SessionManager.delete_preset
delete_preset(store, session_id, preset_id, now) ==
    mutate_session(store, session_id,
                   delete_preset_mutator(Session(store, session_id), preset_id), now)

-----------------------------------------------------------------------------
(* Inputs *)

\* session ids as a caller writes them
SessionIdArgs == {<<"a">>, <<"A", "b">>}

\* SessionCreateRequest.session_id
DesiredIds ==
    {None, Some(<<>>), Some(<<" ">>), Some(<<"a">>), Some(<<"A">>),
     Some(<<"a", "B">>), Some(<<" ", "a">>), Some(<<"a", " ">>)}

\* what uuid4().hex[:6].upper() can be: any upper-case identifier
GeneratedIds == {<<"A">>, <<"B">>}

\* token and preset ids as a caller writes them; 0 is an id never generated
TokenIdArgs == 0..2

\* TokenCreateRequest
TokenCreateRequests ==
    {[name |-> "n1", x |-> Some(5000), y |-> Some(5000), stats |-> DefaultStats],
     [name |-> "n1", x |-> Some(15000), y |-> Some(-2000), stats |-> DefaultStats]}

\* TokenUpdateRequest
TokenUpdateRequests ==
    {[name |-> Some("n2"), x |-> None, y |-> None, stats |-> None],
     [name |-> None, x |-> Some(12000), y |-> Some(3000), stats |-> None]}

\* TokenOrderUpdateRequest
TokenOrderUpdateRequests ==
    {[order |-> o] : o \in {<<>>, <<2, 1>>, <<2, 2>>, <<0, 2>>, <<1>>}}

\* PresetCreateRequest and PresetUpdateRequest
PresetCreateRequests == {[name |-> "p1"]}
PresetUpdateRequests == {[name |-> Some("p2")], [name |-> None]}

\* WarpConfig
WarpConfigs ==
    {<<WarpPoint(0, 0), WarpPoint(10000, 0),
       WarpPoint(10000, 10000), WarpPoint(0, 10000)>>}

\* MapUrlRequest
MapUrlRequests == {[url |-> "u1"]}

\* MapView: zooms 0.1, 0.5, 1, 2 and 10; rotations 0, -90, 360, 720.5 degrees
\* and -1/32 degree, a negative rotation smaller than the float spacing at 360
MapViews ==
    {MapView(WarpPoint(5000, 5000), 10000, 0),
     MapView(WarpPoint(0, 12000), 20000, -2880),
     MapView(WarpPoint(5000, 9000), 5000, 11520),
     MapView(WarpPoint(5000, 5000), 1000, -1),
     MapView(WarpPoint(-100, 5000), 100000, 23056)}

-----------------------------------------------------------------------------
(* The initial state: the module-level objects of main.py *)

NoCall ==
    [op |-> "", session_id |-> <<>>, arg |-> None, err |-> "", ret |-> None,
     repeats |-> FALSE]

Reqs == 1..MaxReqs
Sockets == 1..MaxSockets

IdleReq ==
    [pc |-> "idle", op |-> "", session_id |-> <<>>, arg |-> None, err |-> "",
     token |-> None, commit |-> 0, payload |-> None, targets |-> <<>>,
     sent |-> 0, to_drop |-> <<>>, aborted |-> FALSE, chunks |-> 0]

\* looked_up and attached_at are history: the number of commits of the
\* session when the endpoint looked it up and when it sent the first snapshot;
\* path is history too: the session_id of the URL, as the peer wrote it
IdleSocket ==
    [pc |-> "idle", session_id |-> <<>>, looked_up |-> 0, attached_at |-> 0,
     path |-> <<>>]

Init ==
    /\ sessions = <<>>
    /\ clock = 0
    /\ issued = 0
    /\ connections = <<>>
    /\ req = [r \in Reqs |-> IdleReq]
    /\ ws = [w \in Sockets |-> IdleSocket]
    /\ up = [w \in Sockets |-> TRUE]
    /\ received = [w \in Sockets |-> <<>>]
    /\ log = <<>>
    /\ last = NoCall
    /\ lock = 0

-----------------------------------------------------------------------------
(* SpecStore: the SessionManager API, one call at a time *)

AppVars == <<connections, req, ws, up, received, log, lock>>

\* the call is the call before it (which succeeded) made once more
Repeats(op, session_id, arg) ==
    last.op = op /\ last.session_id = session_id /\ last.arg = arg /\ last.err = ""

\* a call's record, its store, and the clock and uuid values it consumed
CalledWithin(limit, op, session_id, arg, out, drew_uuid) ==
    /\ clock < limit
    /\ sessions' = out.store
    /\ clock' = IF out.err = "" /\ op # "require_session" THEN clock + 1 ELSE clock
    /\ issued' = IF drew_uuid /\ Upper(session_id) \in DOMAIN sessions
                 THEN issued + 1 ELSE issued
    /\ last' = [op |-> op, session_id |-> session_id, arg |-> arg,
                err |-> out.err, ret |-> out.ret,
                repeats |-> Repeats(op, session_id, arg)]
    /\ UNCHANGED AppVars

\* a call of SpecStore
Called(op, session_id, arg, out, drew_uuid) ==
    CalledWithin(MaxCalls, op, session_id, arg, out, drew_uuid)

\* create_session calls _generate_session_id for this desired id
Generates(desired) ==
    desired = None \/ Get(desired) = <<>> \/ Strip(Get(desired)) = <<>>

call_create_session ==
    \E desired \in DesiredIds :
    \E gen \in IF Generates(desired) THEN GeneratedIds ELSE {<<>>} :
        LET payload == [name |-> None, session_id |-> desired]
        IN Called("create_session", <<>>, Some(desired),
                  create_session(sessions, payload, gen, clock + 1), FALSE)

call_require_session ==
    \E id \in SessionIdArgs :
        Called("require_session", id, None, require_session(sessions, id), FALSE)

call_set_map_url ==
    \E id \in SessionIdArgs, payload \in MapUrlRequests :
        Called("set_map_url", id, None,
               set_map_url(sessions, id, payload, clock + 1), FALSE)

call_set_map_image ==
    \E id \in SessionIdArgs, payload \in MapUrlRequests :
        Called("set_map_image", id, None,
               set_map_image(sessions, id, payload.url, clock + 1), FALSE)

call_set_warp ==
    \E id \in SessionIdArgs, warp \in WarpConfigs :
        Called("set_warp", id, None, set_warp(sessions, id, warp, clock + 1), FALSE)

call_set_map_view ==
    \E id \in SessionIdArgs, view \in MapViews :
        Called("set_map_view", id, Some(view),
               set_map_view(sessions, id, view, clock + 1), FALSE)

call_add_token ==
    \E id \in SessionIdArgs, payload \in TokenCreateRequests :
        Called("add_token", id, None,
               add_token(sessions, id, payload, issued + 1, clock + 1), TRUE)

call_update_token ==
    \E id \in SessionIdArgs, token_id \in TokenIdArgs,
       payload \in TokenUpdateRequests :
        Called("update_token", id, Some(token_id),
               update_token(sessions, id, token_id, payload, clock + 1), FALSE)

call_delete_token ==
    \E id \in SessionIdArgs, token_id \in TokenIdArgs :
        Called("delete_token", id, Some(token_id),
               delete_token(sessions, id, token_id, clock + 1), FALSE)

call_set_token_order ==
    \E id \in SessionIdArgs, payload \in TokenOrderUpdateRequests :
        Called("set_token_order", id, Some(payload.order),
               set_token_order(sessions, id, payload, clock + 1), FALSE)

call_add_preset ==
    \E id \in SessionIdArgs, payload \in PresetCreateRequests :
        Called("add_preset", id, None,
               add_preset(sessions, id, payload, issued + 1, clock + 1), TRUE)

call_update_preset ==
    \E id \in SessionIdArgs, preset_id \in TokenIdArgs,
       payload \in PresetUpdateRequests :
        Called("update_preset", id, Some(preset_id),
               update_preset(sessions, id, preset_id, payload, clock + 1), FALSE)

call_delete_preset ==
    \E id \in SessionIdArgs, preset_id \in TokenIdArgs :
        Called("delete_preset", id, Some(preset_id),
               delete_preset(sessions, id, preset_id, clock + 1), FALSE)

NextStore ==
    \/ call_create_session
    \/ call_require_session
    \/ call_set_map_url
    \/ call_set_map_image
    \/ call_set_warp
    \/ call_set_map_view
    \/ call_add_token
    \/ call_update_token
    \/ call_delete_token
    \/ call_set_token_order
    \/ call_add_preset
    \/ call_update_preset
    \/ call_delete_preset

SpecStore == Init /\ [][NextStore]_vars

-----------------------------------------------------------------------------
(* SpecTokens: the token operations on the session "A" *)

\* the session id as the caller writes it
TokenSessionId == <<"a">>

\* a spell_slots dict
Slots == [k \in {"1"} |-> 2]

\* TokenCreateRequest without stats and with {hp: 10, max_hp: 20}
StatsTokenCreateRequests ==
    {[name |-> "n1", x |-> Some(5000), y |-> Some(5000), stats |-> DefaultStats],
     [name |-> "n1", x |-> Some(5000), y |-> Some(5000),
      stats |-> ParsedStats(TokenStats(Some(10), Some(20), None, EmptyDict),
                            {"hp", "max_hp"})]}

\* the stats of a TokenUpdateRequest: {hp: 5}, {hp: null},
\* {max_hp: 30, initiative: 7, spell_slots: {"1": 2}}, and no stats
StatsUpdates ==
    {Some(ParsedStats(TokenStats(Some(5), None, None, EmptyDict), {"hp"})),
     Some(ParsedStats(TokenStats(None, None, None, EmptyDict), {"hp"})),
     Some(ParsedStats(TokenStats(None, Some(30), Some(7), Slots),
                      {"max_hp", "initiative", "spell_slots"})),
     None}

\* TokenUpdateRequest
StatsTokenUpdateRequests ==
    {[name |-> None, x |-> None, y |-> None, stats |-> u] : u \in StatsUpdates}

\* TokenOrderUpdateRequest for up to three tokens
ThreeTokenOrders ==
    {[order |-> o] : o \in {<<2, 1>>, <<3, 3, 0, 1>>, <<>>}}

tokens_create_session ==
    LET payload == [name |-> None, session_id |-> Some(TokenSessionId)]
    IN CalledWithin(MaxTokenCalls, "create_session", <<>>, Some(payload.session_id),
                    create_session(sessions, payload, <<>>, clock + 1), FALSE)

tokens_add_token ==
    \E payload \in StatsTokenCreateRequests :
        CalledWithin(MaxTokenCalls, "add_token", TokenSessionId, Some(payload),
                     add_token(sessions, TokenSessionId, payload, issued + 1,
                               clock + 1),
                     TRUE)

tokens_update_token ==
    \E token_id \in 1..2, payload \in StatsTokenUpdateRequests :
        CalledWithin(MaxTokenCalls, "update_token", TokenSessionId,
                     Some(<<token_id, payload>>),
                     update_token(sessions, TokenSessionId, token_id, payload,
                                  clock + 1),
                     FALSE)

tokens_delete_token ==
    \E token_id \in 1..2 :
        CalledWithin(MaxTokenCalls, "delete_token", TokenSessionId, Some(token_id),
                     delete_token(sessions, TokenSessionId, token_id, clock + 1),
                     FALSE)

tokens_set_token_order ==
    \E payload \in ThreeTokenOrders :
        CalledWithin(MaxTokenCalls, "set_token_order", TokenSessionId,
                     Some(payload.order),
                     set_token_order(sessions, TokenSessionId, payload, clock + 1),
                     FALSE)

NextTokens ==
    \/ tokens_create_session
    \/ tokens_add_token
    \/ tokens_update_token
    \/ tokens_delete_token
    \/ tokens_set_token_order

SpecTokens == Init /\ [][NextTokens]_vars

-----------------------------------------------------------------------------
(* main.py: WebSocketManager *)

\* a request that ended: its locals are gone, its outcome stays
Ended(rq, err) ==
    [IdleReq EXCEPT !.pc = "done", !.op = rq.op, !.session_id = rq.session_id,
                    !.arg = rq.arg, !.token = rq.token, !.commit = rq.commit,
                    !.err = err, !.aborted = rq.aborted]

\* dict.get(key) is truthy: the key is there and its set is not empty
Truthy(conns, session_id) ==
    session_id \in DOMAIN conns /\ conns[session_id] # {}

\* WebSocketManager.disconnect
disconnect(conns, session_id, websocket) ==
    LET removed ==
            IF Truthy(conns, session_id) /\ websocket \in conns[session_id]
            THEN [conns EXCEPT ![session_id] = @ \ {websocket}]
            ELSE conns
    IN IF Truthy(removed, session_id) /\ Cardinality(removed[session_id]) = 0
       THEN [k \in DOMAIN removed \ {session_id} |-> removed[k]]
       ELSE removed

\* connect registering the socket under the session id of its URL as the
\* peer wrote it, instead of the id of the session found
connect_as_given(conns, session_id, websocket) ==
    LET key == ws[websocket].path
    IN [k \in DOMAIN conns \cup {key} |->
           IF k = key
           THEN (IF k \in DOMAIN conns THEN conns[k] ELSE {}) \cup {websocket}
           ELSE conns[k]]

\* WebSocketManager.connect, after websocket.accept():
\* self._connections.setdefault(session_id, set()).add(websocket)
connect(conns, session_id, websocket) ==
    [k \in DOMAIN conns \cup {session_id} |->
        IF k = session_id
        THEN (IF k \in DOMAIN conns THEN conns[k] ELSE {}) \cup {websocket}
        ELSE conns[k]]

\* {"type": "state", "payload": jsonable_encoder(state)}: a copy of the state
StatePayload(state) ==
    [type |-> "state",
     payload |-> [id |-> state.id, name |-> state.name, map |-> state.map,
                  tokens |-> state.tokens, token_order |-> state.token_order,
                  presets |-> state.presets, updated_at |-> state.updated_at]]

\* list(a set): the elements in an order the language leaves open
Lists(set) ==
    {l \in [1..Cardinality(set) -> set] : \A i, j \in DOMAIN l : i # j => l[i] # l[j]}

\* "for conn in to_drop: await self.disconnect(session_id, conn)"
RECURSIVE DropAll(_, _, _)
DropAll(conns, session_id, to_drop) ==
    IF to_drop = <<>> THEN conns
    ELSE DropAll(disconnect(conns, session_id, Head(to_drop)), session_id,
                 Tail(to_drop))

\* What a failed send raises.  starlette raises RuntimeError once the close
\* handshake was seen and WebSocketDisconnect (or the server's own error) when
\* the transport fails: both reach "except RuntimeError", one is caught.
SendErrors == {"RuntimeError", "WebSocketDisconnect"}

\* one turn of "for connection in targets: await connection.send_json(payload)"
\* for the request record rq: the call of send_json for the next target.
\* Yields the record and the messages received afterwards.
SendCall(rq, recv, raised) ==
    LET connection == rq.targets[rq.sent + 1]
    IN IF up[connection]
       THEN [rq |-> [rq EXCEPT !.sent = @ + 1],
             received |-> [recv EXCEPT ![connection] = Append(@, Get(rq.payload))]]
       ELSE IF raised = "RuntimeError"
            THEN [rq |-> [rq EXCEPT !.sent = @ + 1,
                                    !.to_drop = Append(@, connection)],
                  received |-> recv]
            ELSE [rq |-> Ended(rq, raised), received |-> recv]

\* broadcast_state encoding the session as it was before the store call
broadcast_state_stale(rq, session_id, state, targets, raised) ==
    LET started == [rq EXCEPT !.pc = "sending", !.session_id = session_id,
                              !.payload = Some(StatePayload(sessions[session_id])),
                              !.targets = targets]
    IN IF targets = <<>>
       THEN [rq |-> Ended(started, ""), received |-> received]
       ELSE SendCall(started, received, raised)

\* WebSocketManager.broadcast_state up to its first suspension: the targets
\* are listed, the state is encoded and send_json is called for the first
\* target.  With no target the broadcast is over at once.
broadcast_state(rq, session_id, state, targets, raised) ==
    LET started == [rq EXCEPT !.pc = "sending", !.session_id = session_id,
                              !.payload = Some(StatePayload(state)),
                              !.targets = targets]
    IN IF targets = <<>>
       THEN [rq |-> Ended(started, ""), received |-> received]
       ELSE SendCall(started, received, raised)

\* self._connections.get(session_id, set())
Targets(session_id) ==
    IF session_id \in DOMAIN connections THEN connections[session_id] ELSE {}

\* the errors the next send_json of a request can raise
Raisable(targets, sent) ==
    IF sent < Len(targets) /\ ~up[targets[sent + 1]] THEN SendErrors
    ELSE {"RuntimeError"}

-----------------------------------------------------------------------------
(* main.py: the HTTP handlers.  A request r runs its handler from the      *)
(* first line to the first suspension in one step.                         *)

AppSessionIdArgs == {<<"a">>}
AppDesiredIds == {Some(<<"a">>)}
AppTokenCreateRequests ==
    {[name |-> "n1", x |-> Some(5000), y |-> Some(5000), stats |-> DefaultStats]}
AppTokenUpdateRequests ==
    {[name |-> Some("n2"), x |-> None, y |-> None, stats |-> None]}
AppTokenIdArgs == {1, 2}

\* requests arrive in the order of their numbers
Arrives(r) == req[r].pc = "idle" /\ (IF r = 1 THEN TRUE ELSE req[r - 1].pc # "idle")

\* _normalize_session_id
_normalize_session_id(session_id) == Upper(session_id)

\* the history of a session's snapshots, one more for every commit
Logged(store, session_id) ==
    [k \in DOMAIN log \cup {session_id} |->
        IF k = session_id
        THEN Append(IF k \in DOMAIN log THEN log[k] ELSE <<>>, store[k])
        ELSE log[k]]

\* a handler that ends without a broadcast: the response or the error
Responds(r, op, session_id, arg, out) ==
    /\ req' = [req EXCEPT ![r] = [IdleReq EXCEPT !.pc = "done", !.op = op,
                                                !.session_id = session_id,
                                                !.arg = arg, !.err = out.err]]
    /\ sessions' = out.store

\* "state = <the store call>; return await _broadcast(normalized, state)":
\* the store call's outcome out, then _broadcast up to its first suspension
Mutates(r, op, normalized, arg, out, drew_uuid) ==
    IF out.err # ""
    THEN /\ Responds(r, op, normalized, arg, out)
         /\ UNCHANGED <<clock, issued, connections, ws, up, received, log, last, lock>>
    ELSE \E targets \in Lists(Targets(normalized)) :
         \E raised \in Raisable(targets, 0) :
            LET rq == [IdleReq EXCEPT !.op = op, !.arg = arg, !.token = out.ret,
                                      !.commit = clock + 1]
                b == broadcast_state(rq, normalized, out.store[normalized],
                                     targets, raised)
            IN /\ req' = [req EXCEPT ![r] = b.rq]
               /\ received' = b.received
               /\ sessions' = out.store
               /\ clock' = clock + 1
               /\ issued' = IF drew_uuid THEN issued + 1 ELSE issued
               /\ log' = Logged(out.store, normalized)
               /\ UNCHANGED <<connections, ws, up, last, lock>>

\* POST /api/sessions
h_create_session(r) ==
    /\ Arrives(r)
    /\ \E desired \in AppDesiredIds, gen \in GeneratedIds :
          LET payload == [name |-> None, session_id |-> desired]
              out == create_session(sessions, payload, gen, clock + 1)
          IN /\ Responds(r, "create_session",
                         IF out.err = "" THEN Get(out.ret).id ELSE <<>>,
                         Some(desired), out)
             /\ clock' = IF out.err = "" THEN clock + 1 ELSE clock
             /\ log' = IF out.err = "" THEN Logged(out.store, Get(out.ret).id)
                       ELSE log
    /\ UNCHANGED <<issued, connections, ws, up, received, last, lock>>

\* GET /api/sessions/{session_id}
h_read_session(r) ==
    /\ Arrives(r)
    /\ \E session_id \in AppSessionIdArgs :
          Responds(r, "read_session", Upper(session_id), None,
                   require_session(sessions, session_id))
    /\ UNCHANGED <<clock, issued, connections, ws, up, received, log, last, lock>>

\* POST /api/sessions/{session_id}/map/url
h_set_map_url(r) ==
    /\ Arrives(r)
    /\ \E session_id \in AppSessionIdArgs, payload \in MapUrlRequests :
          LET normalized == _normalize_session_id(session_id)
          IN Mutates(r, "set_map_url", normalized, None,
                     set_map_url(sessions, normalized, payload, clock + 1), FALSE)

\* POST /api/sessions/{session_id}/map/upload, to the first file.read
h_upload_map(r) ==
    /\ Arrives(r)
    /\ \E session_id \in AppSessionIdArgs :
          LET normalized == _normalize_session_id(session_id)
              out == require_session(sessions, normalized)
          IN IF out.err # ""
             THEN Responds(r, "upload_map", normalized, None, out)
             ELSE /\ req' = [req EXCEPT ![r] =
                               [IdleReq EXCEPT !.pc = "uploading",
                                               !.op = "upload_map",
                                               !.session_id = normalized]]
                  /\ UNCHANGED sessions
    /\ UNCHANGED <<clock, issued, connections, ws, up, received, log, last, lock>>

\* upload_map once the file is written: set_map_image and the broadcast
h_upload_map_written(r) ==
    /\ req[r].pc = "uploading"
    /\ LET normalized == req[r].session_id
       IN Mutates(r, "upload_map", normalized, None,
                  set_map_image(sessions, normalized, "upload", clock + 1), FALSE)

\* POST /api/sessions/{session_id}/warp
h_update_warp(r) ==
    /\ Arrives(r)
    /\ \E session_id \in AppSessionIdArgs, warp \in WarpConfigs :
          LET normalized == _normalize_session_id(session_id)
          IN Mutates(r, "update_warp", normalized, None,
                     set_warp(sessions, normalized, warp, clock + 1), FALSE)

\* POST /api/sessions/{session_id}/tokens
h_create_token(r) ==
    /\ Arrives(r)
    /\ \E session_id \in AppSessionIdArgs, payload \in AppTokenCreateRequests :
          LET normalized == _normalize_session_id(session_id)
          IN Mutates(r, "create_token", normalized, None,
                     add_token(sessions, normalized, payload, issued + 1, clock + 1),
                     TRUE)

\* PUT /api/sessions/{session_id}/tokens/{token_id}
h_update_token(r) ==
    /\ Arrives(r)
    /\ \E session_id \in AppSessionIdArgs, token_id \in AppTokenIdArgs,
          payload \in AppTokenUpdateRequests :
          LET normalized == _normalize_session_id(session_id)
          IN Mutates(r, "update_token", normalized, Some(token_id),
                     update_token(sessions, normalized, token_id, payload, clock + 1),
                     FALSE)

\* DELETE /api/sessions/{session_id}/tokens/{token_id}
h_delete_token(r) ==
    /\ Arrives(r)
    /\ \E session_id \in AppSessionIdArgs, token_id \in AppTokenIdArgs :
          LET normalized == _normalize_session_id(session_id)
          IN Mutates(r, "delete_token", normalized, Some(token_id),
                     delete_token(sessions, normalized, token_id, clock + 1),
                     FALSE)

\* broadcast_state resumed after a send_json: the next send_json, or, after
\* the last one, the disconnects of to_drop and the return
broadcast_resumed(r) ==
    /\ req[r].pc = "sending"
    /\ IF req[r].sent < Len(req[r].targets)
       THEN \E raised \in Raisable(req[r].targets, req[r].sent) :
               LET b == SendCall(req[r], received, raised)
               IN /\ req' = [req EXCEPT ![r] = b.rq]
                  /\ received' = b.received
                  /\ UNCHANGED connections
       ELSE /\ connections' = DropAll(connections, req[r].session_id, req[r].to_drop)
            /\ req' = [req EXCEPT ![r] = Ended(@, "")]
            /\ UNCHANGED received
    /\ UNCHANGED <<sessions, clock, issued, ws, up, log, last, lock>>

-----------------------------------------------------------------------------
(* main.py: websocket_endpoint *)

\* sockets connect in the order of their numbers
Connects(w) == ws[w].pc = "idle" /\ (IF w = 1 THEN TRUE ELSE ws[w - 1].pc # "idle")

\* websocket_endpoint accepting and registering a socket whose session is
\* not in the store
websocket_endpoint_registers(w) ==
    /\ Connects(w)
    /\ \E session_id \in AppSessionIdArgs :
          LET out == require_session(sessions, session_id)
          IN IF out.err # ""
             THEN /\ ws' = [ws EXCEPT ![w].pc = "closed4404"]
                  /\ connections' = connect(connections, Upper(session_id), w)
             ELSE /\ ws' = [ws EXCEPT ![w].pc = "accepting",
                                      ![w].session_id = Get(out.ret).id,
                                      ![w].looked_up = Len(log[Get(out.ret).id])]
                  /\ UNCHANGED connections
    /\ UNCHANGED <<sessions, clock, issued, req, up, received, log, last, lock>>

\* websocket_endpoint up to "await websocket.accept()": the session is looked
\* up; without one the socket is closed with code 4404
websocket_endpoint(w) ==
    /\ Connects(w)
    /\ \E session_id \in AppSessionIdArgs :
          LET out == require_session(sessions, session_id)
          IN ws' = [ws EXCEPT ![w] =
                      IF out.err # ""
                      THEN [@ EXCEPT !.pc = "closed4404"]
                      ELSE [@ EXCEPT !.pc = "accepting",
                                     !.session_id = Get(out.ret).id,
                                     !.looked_up = Len(log[Get(out.ret).id])]]
    /\ UNCHANGED <<sessions, clock, issued, connections, req, up, received, log, last, lock>>

\* websocket_endpoint resumed after accept(): the socket is registered and
\* send_state sends it the session as it is now (session is the store's own
\* object).  A send that fails is not caught: the endpoint ends, the socket
\* stays registered.
websocket_accepted(w) ==
    /\ ws[w].pc = "accepting"
    /\ LET normalized == ws[w].session_id
           payload == StatePayload(sessions[normalized])
       IN /\ connections' = connect(connections, normalized, w)
          /\ IF up[w]
             THEN /\ received' = [received EXCEPT ![w] = Append(@, payload)]
                  /\ ws' = [ws EXCEPT ![w].pc = "open",
                                      ![w].attached_at = Len(log[normalized])]
             ELSE /\ ws' = [ws EXCEPT ![w].pc = "failed"]
                  /\ UNCHANGED received
    /\ UNCHANGED <<sessions, clock, issued, req, up, log, last, lock>>

\* accept() itself fails for a peer that is gone: the endpoint ends
websocket_accept_failed(w) ==
    /\ ws[w].pc = "accepting"
    /\ ~up[w]
    /\ ws' = [ws EXCEPT ![w].pc = "failed"]
    /\ UNCHANGED <<sessions, clock, issued, connections, req, up, received, log, last, lock>>

\* the peer goes away
peer_closes(w) ==
    /\ ws[w].pc \in {"accepting", "open"}
    /\ up[w]
    /\ up' = [up EXCEPT ![w] = FALSE]
    /\ UNCHANGED <<sessions, clock, issued, connections, req, ws, received, log, last, lock>>

\* receive_text raises WebSocketDisconnect: ws_manager.disconnect
websocket_disconnected(w) ==
    /\ ws[w].pc = "open"
    /\ ~up[w]
    /\ connections' = disconnect(connections, ws[w].session_id, w)
    /\ ws' = [ws EXCEPT ![w].pc = "closed"]
    /\ UNCHANGED <<sessions, clock, issued, req, up, received, log, last, lock>>

Next ==
    \/ \E r \in Reqs :
          \/ h_create_session(r)
          \/ h_read_session(r)
          \/ h_set_map_url(r)
          \/ h_upload_map(r)
          \/ h_upload_map_written(r)
          \/ h_update_warp(r)
          \/ h_create_token(r)
          \/ h_update_token(r)
          \/ h_delete_token(r)
          \/ broadcast_resumed(r)
    \/ \E w \in Sockets :
          \/ websocket_endpoint(w)
          \/ websocket_accepted(w)
          \/ websocket_accept_failed(w)
          \/ peer_closes(w)
          \/ websocket_disconnected(w)

Spec == Init /\ [][Next]_vars

-----------------------------------------------------------------------------
(* SpecAbort: callers that go away.  The handler runs in the server's task *)
(* for the request and never looks at the caller's connection.  What an    *)
(* abort does to it is the server's choice: the task runs on and the       *)
(* response is dropped, or the task is cancelled, and CancelledError is     *)
(* raised at the await it is suspended in.                                 *)

\* what the abort of a caller does to the handler's task
AbortOutcomes == {"runs on", "CancelledError"}

\* the caller of a request that has committed and is broadcasting goes away.
\* CancelledError is raised by "await connection.send_json(payload)", is no
\* RuntimeError and ends broadcast_state and the handler.
caller_aborts(r) ==
    /\ req[r].pc = "sending"
    /\ ~req[r].aborted
    /\ \E outcome \in AbortOutcomes :
          LET gone == [req[r] EXCEPT !.aborted = TRUE]
          IN req' = [req EXCEPT ![r] = IF outcome = "CancelledError"
                                       THEN Ended(gone, outcome) ELSE gone]
    /\ UNCHANGED <<sessions, clock, issued, connections, ws, up, received, log, last, lock>>

NextAbort ==
    \/ \E r \in Reqs :
          \/ h_create_session(r)
          \/ h_create_token(r)
          \/ h_delete_token(r)
          \/ broadcast_resumed(r)
          \/ caller_aborts(r)
    \/ \E w \in Sockets :
          \/ websocket_endpoint(w)
          \/ websocket_accepted(w)
          \/ websocket_accept_failed(w)
          \/ peer_closes(w)
          \/ websocket_disconnected(w)

SpecAbort == Init /\ [][NextAbort]_vars

-----------------------------------------------------------------------------
(* SpecLock: the exclusive section of the store.  Here a handler is        *)
(* followed through "async with self._lock": entering the section, the     *)
(* section's body with the exit, and what the handler does outside are     *)
(* steps of their own, and other handlers may run between them.  A request *)
(* that finds the lock taken waits; its pc names the SessionManager call   *)
(* whose section it is in.                                                 *)

\* the SessionManager calls that a handler of SpecLock starts with
FirstCalls == {"create_session", "set_map_url", "require_session"}

\* the handler of each of these calls
HandlerOf(call) ==
    CASE call = "create_session" -> "create_session"
      [] call = "set_map_url" -> "set_map_url"
      [] call = "require_session" -> "upload_map"

\* a handler starts and enters "async with self._lock" of its first call
lock_acquired(r) ==
    /\ Arrives(r)
    /\ lock = 0
    /\ \E call \in FirstCalls, session_id \in AppSessionIdArgs :
          req' = [req EXCEPT ![r] =
                    [IdleReq EXCEPT !.pc = call, !.op = HandlerOf(call),
                                    !.session_id = _normalize_session_id(session_id)]]
    /\ lock' = r
    /\ UNCHANGED <<sessions, clock, issued, connections, ws, up, received, log, last>>

\* the section's outcome out is stored and the handler goes on at pc (or
\* ends, if the call raised); the lock is then held by held
Returned(r, out, pc, stamped, held) ==
    /\ sessions' = out.store
    /\ lock' = held
    /\ req' = [req EXCEPT ![r] =
                 IF out.err # "" THEN Ended(@, out.err)
                 ELSE IF pc = "done" THEN Ended(@, "")
                 ELSE [@ EXCEPT !.pc = pc,
                                !.commit = IF stamped THEN clock + 1 ELSE @]]
    /\ clock' = IF out.err = "" /\ stamped THEN clock + 1 ELSE clock
    /\ log' = IF out.err = "" /\ stamped
              THEN Logged(out.store, req[r].session_id) ELSE log
    /\ UNCHANGED <<issued, connections, ws, up, received, last>>

\* the body of the section that request r is in, and the exit from it
Section(r, held) ==
    /\ lock = r
    /\ LET normalized == req[r].session_id
       IN CASE req[r].pc = "create_session" ->
                 \E gen \in GeneratedIds :
                    Returned(r,
                             create_session(sessions,
                                            [name |-> None,
                                             session_id |-> Some(normalized)],
                                            gen, clock + 1),
                             "done", TRUE, held)
            [] req[r].pc = "set_map_url" ->
                 \E payload \in MapUrlRequests :
                    Returned(r, set_map_url(sessions, normalized, payload, clock + 1),
                             "returned", TRUE, held)
            [] req[r].pc = "require_session" ->
                 Returned(r, require_session(sessions, normalized),
                          "uploading", FALSE, held)
            [] req[r].pc = "set_map_image" ->
                 Returned(r, set_map_image(sessions, normalized, "upload", clock + 1),
                          "returned", TRUE, held)
            [] OTHER -> FALSE

\* a section of a mutation or of a lookup that keeps the lock at its end
lock_released_late(r) ==
    Section(r, IF req[r].pc = "create_session" THEN 0 ELSE r)

\* the section of request r runs and "async with self._lock" is left
lock_released(r) == Section(r, 0)

\* upload_map opens the destination, "with destination.open('wb') as
\* buffer", and calls file.read for the first time; the file has n chunks
upload_opened(r) ==
    /\ req[r].pc = "uploading"
    /\ \E n \in 1..MaxChunks :
          req' = [req EXCEPT ![r].chunks = n, ![r].pc = "reading"]
    /\ UNCHANGED <<sessions, clock, issued, connections, ws, up, received, log, last, lock>>

\* "while chunk := await file.read(...): buffer.write(chunk)": one chunk
upload_chunk_written(r) ==
    /\ req[r].pc = "reading"
    /\ req[r].chunks > 0
    /\ req' = [req EXCEPT ![r].chunks = @ - 1]
    /\ UNCHANGED <<sessions, clock, issued, connections, ws, up, received, log, last, lock>>

\* file.read returns b"": the file is written and closed, the url is built
\* and set_map_image enters "async with self._lock"
upload_written(r) ==
    /\ req[r].pc = "reading"
    /\ req[r].chunks = 0
    /\ lock = 0
    /\ req' = [req EXCEPT ![r].pc = "set_map_image"]
    /\ lock' = r
    /\ UNCHANGED <<sessions, clock, issued, connections, ws, up, received, log, last>>

\* "return await _broadcast(normalized, state)" up to the first send_json;
\* state is the store's session
broadcast_called(r) ==
    /\ req[r].pc = "returned"
    /\ \E targets \in Lists(Targets(req[r].session_id)) :
       \E raised \in Raisable(targets, 0) :
          LET b == broadcast_state(req[r], req[r].session_id,
                                   sessions[req[r].session_id], targets, raised)
          IN /\ req' = [req EXCEPT ![r] = b.rq]
             /\ received' = b.received
    /\ UNCHANGED <<sessions, clock, issued, connections, ws, up, log, last, lock>>

\* websocket_endpoint, whose require_session waits for the lock
websocket_lookup(w) == lock = 0 /\ websocket_endpoint(w)

NextLock ==
    \/ \E r \in Reqs :
          \/ lock_acquired(r)
          \/ lock_released(r)
          \/ upload_opened(r)
          \/ upload_chunk_written(r)
          \/ upload_written(r)
          \/ broadcast_called(r)
          \/ broadcast_resumed(r)
    \/ \E w \in Sockets :
          \/ websocket_lookup(w)
          \/ websocket_accepted(w)

SpecLock == Init /\ [][NextLock]_vars

-----------------------------------------------------------------------------
(* SpecRouting: two sessions, "A" and "B", and callers and peers that      *)
(* write their ids in either case.  A request's arg is the session_id of   *)
(* its URL as the caller wrote it.                                         *)

\* the session_id of a URL
RoutingSessionIdArgs == {<<"a">>, <<"A">>, <<"b">>, <<"B">>}

\* SessionCreateRequest.session_id
RoutingDesiredIds == {Some(<<"a">>), Some(<<"B">>)}

\* POST /api/sessions
routing_create_session(r) ==
    /\ Arrives(r)
    /\ \E desired \in RoutingDesiredIds :
          LET payload == [name |-> None, session_id |-> desired]
              out == create_session(sessions, payload, <<>>, clock + 1)
          IN /\ Responds(r, "create_session",
                         IF out.err = "" THEN Get(out.ret).id ELSE <<>>,
                         Some(desired), out)
             /\ clock' = IF out.err = "" THEN clock + 1 ELSE clock
             /\ log' = IF out.err = "" THEN Logged(out.store, Get(out.ret).id)
                       ELSE log
    /\ UNCHANGED <<issued, connections, ws, up, received, last, lock>>

\* POST /api/sessions/{session_id}/map/url
routing_set_map_url(r) ==
    /\ Arrives(r)
    /\ \E session_id \in RoutingSessionIdArgs, payload \in MapUrlRequests :
          LET normalized == _normalize_session_id(session_id)
          IN Mutates(r, "set_map_url", normalized, Some(session_id),
                     set_map_url(sessions, normalized, payload, clock + 1), FALSE)

\* POST /api/sessions/{session_id}/tokens
routing_create_token(r) ==
    /\ Arrives(r)
    /\ \E session_id \in RoutingSessionIdArgs, payload \in AppTokenCreateRequests :
          LET normalized == _normalize_session_id(session_id)
          IN Mutates(r, "create_token", normalized, Some(session_id),
                     add_token(sessions, normalized, payload, issued + 1, clock + 1),
                     TRUE)

\* websocket_endpoint up to "await websocket.accept()"
routing_websocket_endpoint(w) ==
    /\ Connects(w)
    /\ \E session_id \in RoutingSessionIdArgs :
          LET out == require_session(sessions, session_id)
          IN ws' = [ws EXCEPT ![w] =
                      IF out.err # ""
                      THEN [@ EXCEPT !.pc = "closed4404", !.path = session_id]
                      ELSE [@ EXCEPT !.pc = "accepting",
                                     !.session_id = Get(out.ret).id,
                                     !.looked_up = Len(log[Get(out.ret).id]),
                                     !.path = session_id]]
    /\ UNCHANGED <<sessions, clock, issued, connections, req, up, received, log, last, lock>>

NextRouting ==
    \/ \E r \in Reqs :
          \/ routing_create_session(r)
          \/ routing_set_map_url(r)
          \/ routing_create_token(r)
          \/ broadcast_resumed(r)
    \/ \E w \in Sockets :
          \/ routing_websocket_endpoint(w)
          \/ websocket_accepted(w)
          \/ websocket_accept_failed(w)
          \/ peer_closes(w)
          \/ websocket_disconnected(w)

SpecRouting == Init /\ [][NextRouting]_vars

-----------------------------------------------------------------------------
(* Properties *)

\* the state messages a socket was sent, oldest first
Snapshots(w) == received[w]

\* C1: on every connection the snapshots arrive in the order in which the
\* mutations committed: a snapshot never follows one of a later commit.
C1_SnapshotsInCommitOrder ==
    \A w \in Sockets :
        \A i, j \in DOMAIN Snapshots(w) :
            i < j => Snapshots(w)[i].payload.updated_at
                        <= Snapshots(w)[j].payload.updated_at

\* the ids of a sequence of tokens or presets
Ids(seq) == {seq[i].id : i \in 1..Len(seq)}

\* C2: in every session the ids of the tokens are the ids of token_order,
\* and token_order names no id twice.
C2_OrderListsTheTokens ==
    \A k \in DOMAIN sessions :
        /\ Ids(sessions[k].tokens) = Range(sessions[k].token_order)
        /\ Cardinality(Range(sessions[k].token_order)) = Len(sessions[k].token_order)

\* C2 witness: a reorder of two tokens has just been applied
C2_Witness ==
    /\ last.op = "set_token_order"
    /\ last.err = ""
    /\ \E k \in DOMAIN sessions : sessions[k].token_order = <<2, 1>>

\* a delete_token request for this token id has committed
Deleted(token_id) ==
    \E r \in Reqs : /\ req[r].op = "delete_token"
                    /\ req[r].arg = Some(token_id)
                    /\ req[r].commit > 0

\* the request has added a token (add_token returned it)
Added(r) == req[r].op = "create_token" /\ req[r].token # None

\* C3: two add_token calls get tokens of different ids, and both tokens are
\* in the session's tokens and token_order (until a delete_token names them).
C3_BothTokensKept ==
    \A r1, r2 \in Reqs :
        (r1 # r2 /\ Added(r1) /\ Added(r2)) =>
            /\ Get(req[r1].token).id # Get(req[r2].token).id
            /\ \A r \in {r1, r2} :
                  LET id == Get(req[r].token).id
                      session == sessions[req[r].session_id]
                  IN Deleted(id) \/ (/\ id \in Ids(session.tokens)
                                     /\ id \in Range(session.token_order))

\* C3 witness: the second add_token has completed while the first request,
\* which added its token before, is still broadcasting; both tokens are there
C3_Witness ==
    \E r1, r2 \in Reqs :
        /\ r1 < r2 /\ Added(r1) /\ Added(r2)
        /\ req[r1].pc = "sending" /\ req[r2].pc = "done"
        /\ Ids(sessions[req[r1].session_id].tokens)
              = {Get(req[r1].token).id, Get(req[r2].token).id}

\* no request is in the middle of a broadcast
Quiescent == \A r \in Reqs : req[r].pc # "sending"

\* C4: a connection gets the snapshot of its attach first and then exactly
\* one snapshot for each later commit of its session: once the broadcasts are
\* over, an attached connection has received just these.
C4_OneSnapshotPerCommit ==
    \A w \in Sockets :
        (ws[w].pc = "open" /\ up[w]) =>
            LET commits == log[ws[w].session_id]
                first == ws[w].attached_at
            IN /\ Snapshots(w) # <<>>
               /\ Snapshots(w)[1] = StatePayload(commits[first])
               /\ Quiescent =>
                    /\ Len(Snapshots(w)) = 1 + Len(commits) - first
                    /\ \A i \in first..Len(commits) :
                          \E j \in DOMAIN Snapshots(w) :
                              Snapshots(w)[j] = StatePayload(commits[i])

\* C5: a send that fails never ends the broadcast with an error: no request
\* ends with the error a send raised.
C5_SendFailureStaysLocal ==
    \A r \in Reqs : req[r].err \notin SendErrors

\* C6: no session id is registered with an empty set of connections.
C6_NoEmptySubscriberSet ==
    \A k \in DOMAIN connections : connections[k] # {}

\* the strings that differ from s in case only
CaseVariants(s) == {v \in [1..Len(s) -> Chars] : Upper(v) = Upper(s)}

\* the step is a create_session call with a desired id
CreatedWith(desired) ==
    /\ last'.op = "create_session"
    /\ last'.arg = Some(Some(desired))

\* C7 as amended: create with a desired id that is not blank stores the
\* session under the stripped, upper-cased id, where get finds it under every
\* case variant of the stripped id; if that id is in the store already the
\* create fails with Conflict and the store stays as it is.
C7_CreateStripsAndUppercases ==
    [][\A desired \in {Get(d) : d \in DesiredIds \ {None}} :
          (CreatedWith(desired) /\ Strip(desired) # <<>>) =>
              LET id == Upper(Strip(desired))
              IN IF id \in DOMAIN sessions
                 THEN last'.err = "Conflict" /\ sessions' = sessions
                 ELSE /\ last'.err = ""
                      /\ DOMAIN sessions' = DOMAIN sessions \cup {id}
                      /\ \A k \in DOMAIN sessions : sessions'[k] = sessions[k]
                      /\ \A v \in CaseVariants(Strip(desired)) :
                            LET got == require_session(sessions', v)
                            IN got.err = "" /\ Get(got.ret).id = id]_vars

\* C7 witness: a create whose desired id normalizes to a stored id failed
C7_Witness ==
    /\ last.op = "create_session"
    /\ last.arg = Some(Some(<<"A">>))
    /\ last.err = "Conflict"
    /\ <<"A">> \in DOMAIN sessions

\* C7 as claimed: create with a desired id (one that is not blank) stores the
\* session under the upper-cased id, where get finds it under every case
\* variant of that id.
C7_CreateUppercases ==
    [][\A desired \in {Get(d) : d \in DesiredIds \ {None}} :
          (CreatedWith(desired) /\ Strip(desired) # <<>> /\ last'.err = "") =>
              /\ Upper(desired) \in DOMAIN sessions'
              /\ \A v \in CaseVariants(desired) :
                    require_session(sessions', v).err = ""]_vars

\* C8: create without a desired id never fails with Conflict.
C8_GeneratedIdNeverConflicts ==
    (last.op = "create_session" /\ last.arg = Some(None)) => last.err = ""

\* C9: the snapshot a mutation broadcasts is the session as that mutation
\* committed it.
C9_PayloadIsOwnCommit ==
    \A r \in Reqs :
        req[r].pc = "sending" =>
            \E i \in DOMAIN log[req[r].session_id] :
                /\ log[req[r].session_id][i].updated_at = req[r].commit
                /\ Get(req[r].payload) = StatePayload(log[req[r].session_id][i])

\* C9 witness: a mutation is broadcasting its snapshot while a later
\* mutation of the session has committed
C9_Witness ==
    \E r \in Reqs :
        /\ req[r].pc = "sending"
        /\ sessions[req[r].session_id].updated_at > req[r].commit

\* C10: a call that fails with NotFound leaves the store, the clock and the
\* history as they were and no socket is sent anything; so does update_preset
\* for an id the session has no preset of.
C10_NotFoundChangesNothing ==
    [][/\ \A r \in Reqs :
            (req'[r] # req[r] /\ req'[r].err = "NotFound") =>
                /\ sessions' = sessions
                /\ received' = received
                /\ clock' = clock /\ log' = log
                /\ req'[r].pc = "done"
       /\ \A id \in SessionIdArgs, preset_id \in TokenIdArgs,
             payload \in PresetUpdateRequests :
            LET out == update_preset(sessions, id, preset_id, payload, clock + 1)
            IN out.err = "NotFound" => out.store = sessions]_vars

\* C10 witness: update_token named an id that a session with tokens has not
C10_Witness ==
    \E r \in Reqs :
        /\ req[r].op = "update_token"
        /\ req[r].err = "NotFound"
        /\ req[r].session_id \in DOMAIN sessions
        /\ sessions[req[r].session_id].tokens # <<>>

\* C11: delete_token and delete_preset on a session that is there never
\* fail, and for an id the session has no token (no preset) of, as on the
\* second of two deletes or for an id never present, they leave tokens,
\* token_order and presets as they were.
C11_DeleteTwiceIsNoOp ==
    [][(last'.op \in {"delete_token", "delete_preset"}
          /\ Upper(last'.session_id) \in DOMAIN sessions) =>
            LET k == Upper(last'.session_id)
                id == Get(last'.arg)
                before == sessions[k]
                after == sessions'[k]
                absent == IF last'.op = "delete_token"
                          THEN id \notin Ids(before.tokens)
                          ELSE id \notin Ids(before.presets)
            IN /\ last'.err = ""
               /\ absent => /\ after.tokens = before.tokens
                             /\ after.token_order = before.token_order
                             /\ after.presets = before.presets]_vars

\* C11 witness: the second delete_token of an id, after the first one has
\* removed the token
C11_Witness ==
    /\ last.op = "delete_token"
    /\ last.arg = Some(1)
    /\ last.repeats
    /\ last.err = ""
    /\ issued = 1
    /\ clock = 4
    /\ \A k \in DOMAIN sessions :
          sessions[k].tokens = <<>> /\ sessions[k].presets = <<>>

\* C12: in every session the view's center keeps the visible window inside
\* the scene: with z the stored zoom, center.x and center.y are at least
\* 0.5 / z and at most 1 - 0.5 / z.
C12_ViewWindowInsideScene ==
    \A k \in DOMAIN sessions :
        LET view == sessions[k].map.view
        IN \A c \in {view.center.x, view.center.y} :
              /\ c * view.zoom >= 50000000
              /\ (10000 - c) * view.zoom >= 50000000

\* C13: in every session every token's x and y are in [0, 1], the view's
\* zoom is in [0.2, 8.0] and the view's rotation is in [0, 360).
C13_ClampLaws ==
    \A k \in DOMAIN sessions :
        /\ \A i \in DOMAIN sessions[k].tokens :
              /\ sessions[k].tokens[i].x \in 0..10000
              /\ sessions[k].tokens[i].y \in 0..10000
        /\ sessions[k].map.view.zoom \in 2000..80000
        /\ sessions[k].map.view.rotation >= 0
        /\ sessions[k].map.view.rotation < 11520

\* the token of that id in a session that has one
TokenOf(session, token_id) ==
    session.tokens[CHOOSE i \in DOMAIN session.tokens :
                      session.tokens[i].id = token_id]

\* the step is an update_token call with stats that succeeded
UpdatedStats ==
    /\ last'.op = "update_token"
    /\ last'.err = ""
    /\ Get(last'.arg)[2].stats # None

\* C14 as amended: update_token with stats merges key by key: a key that the
\* update gives with a value that is not null has that value afterwards; a
\* key that the update leaves out, or gives as null, keeps its value.
C14_StatsMergeSkipsNull ==
    [][UpdatedStats =>
          LET k == Upper(last'.session_id)
              token_id == Get(last'.arg)[1]
              update == Get(Get(last'.arg)[2].stats)
              before == TokenOf(sessions[k], token_id).stats
              after == TokenOf(sessions'[k], token_id).stats
          IN /\ \A key \in {"hp", "max_hp", "initiative"} :
                   IF key \in update.fields_set /\ update.stats[key] # None
                   THEN after[key] = update.stats[key]
                   ELSE after[key] = before[key]
             /\ after.spell_slots = IF "spell_slots" \in update.fields_set
                                    THEN update.stats.spell_slots
                                    ELSE before.spell_slots]_vars

\* C14 witness: {hp: 5} was applied to a token created with
\* {hp: 10, max_hp: 20}, which now has {hp: 5, max_hp: 20}
C14_Witness ==
    /\ last.op = "update_token"
    /\ last.err = ""
    /\ Get(last.arg)[2].stats
          = Some(ParsedStats(TokenStats(Some(5), None, None, EmptyDict), {"hp"}))
    /\ TokenOf(sessions[Upper(last.session_id)], Get(last.arg)[1]).stats
          = TokenStats(Some(5), Some(20), None, EmptyDict)

\* C14 as claimed: a key that the update gives has the given value
\* afterwards, a key that the update leaves out keeps its value.
C14_StatsMergeByKey ==
    [][UpdatedStats =>
          LET k == Upper(last'.session_id)
              token_id == Get(last'.arg)[1]
              update == Get(Get(last'.arg)[2].stats)
              before == TokenOf(sessions[k], token_id).stats
              after == TokenOf(sessions'[k], token_id).stats
          IN \A key \in StatsKeys :
                IF key \in update.fields_set
                THEN after[key] = update.stats[key]
                ELSE after[key] = before[key]]_vars

\* the elements of s at the positions idx, in the order of s
RECURSIVE Picked(_, _, _)
Picked(s, idx, i) ==
    IF i > Len(s) THEN <<>>
    ELSE (IF i \in idx THEN <<s[i]>> ELSE <<>>) \o Picked(s, idx, i + 1)

\* the ids of desired that are ids of have, each at its first place
NamedOnce(desired, have) ==
    Picked(desired,
           {i \in DOMAIN desired :
               /\ desired[i] \in have
               /\ \A j \in 1..(i - 1) : desired[j] # desired[i]},
           1)

\* C15: set_token_order leaves the order list as the ids of the desired
\* order that are ids of tokens, each once, in the desired order, followed
\* by the other tokens' ids in the order they had; the tokens are the same.
C15_ReorderLaw ==
    [][(last'.op = "set_token_order" /\ last'.err = "") =>
          LET k == Upper(last'.session_id)
              desired == Get(last'.arg)
              before == sessions[k]
              after == sessions'[k]
              have == Ids(before.tokens)
          IN /\ after.token_order
                  = NamedOnce(desired, have)
                    \o Picked(before.token_order,
                              {i \in DOMAIN before.token_order :
                                  before.token_order[i] \notin Range(desired)},
                              1)
             /\ Range(after.tokens) = Range(before.tokens)
             /\ Len(after.tokens) = Len(before.tokens)]_vars

\* C15 witness: the order [2, 1] was applied to the tokens [1, 2, 3] and the
\* order is now [2, 1, 3]
C15_Witness ==
    /\ last.op = "set_token_order"
    /\ last.arg = Some(<<2, 1>>)
    /\ clock = 5
    /\ sessions[Upper(last.session_id)].token_order = <<2, 1, 3>>

\* C16: a snapshot handed out is a copy: what websocket_endpoint sends as
\* the first snapshot is the session as require_session handed it out, also
\* when a mutation has committed since.
C16_SnapshotIsACopy ==
    \A w \in Sockets :
        ws[w].pc = "open" =>
            Snapshots(w)[1] = StatePayload(log[ws[w].session_id][ws[w].looked_up])

\* C17: a socket that asked for a session that was not there and was closed
\* with code 4404 is in no set of connections and has been sent nothing.
C17_RejectedNeverSubscribed ==
    \A w \in Sockets :
        ws[w].pc = "closed4404" =>
            /\ Snapshots(w) = <<>>
            /\ \A k \in DOMAIN connections : w \notin connections[k]

\* C17 witness: a socket was closed with code 4404; the session was created
\* afterwards and a mutation of it has been broadcast to another socket
C17_Witness ==
    /\ ws[1].pc = "closed4404"
    /\ ws[2].pc = "open"
    /\ Len(Snapshots(2)) = 2
    /\ \A r \in Reqs : req[r].pc = "done"

\* C18: a request whose caller went away after the commit keeps its commit,
\* and its snapshot still reaches the connections of the session: once the
\* request is over, the commit is in the session's history and every socket
\* that was attached before the commit, and is still attached, has received
\* the snapshot of the commit.
C18_AbortedStillBroadcast ==
    \A r \in Reqs :
        (req[r].aborted /\ req[r].pc = "done") =>
            LET commits == log[req[r].session_id]
            IN \E i \in DOMAIN commits :
                  /\ commits[i].updated_at = req[r].commit
                  /\ sessions[req[r].session_id].updated_at >= req[r].commit
                  /\ \A w \in Sockets :
                        (/\ ws[w].pc = "open" /\ up[w]
                         /\ ws[w].session_id = req[r].session_id
                         /\ ws[w].attached_at < i) =>
                            \E j \in DOMAIN Snapshots(w) :
                                Snapshots(w)[j] = StatePayload(commits[i])

\* no request is in flight: every handler has returned
AllFinished == \A r \in Reqs : req[r].pc \in {"idle", "done"}

\* no send has failed: every peer is there and no request ended with an error
\* of a send
NoSendFailed ==
    /\ \A w \in Sockets : up[w]
    /\ \A r \in Reqs : req[r].err \notin SendErrors

\* C20: once every request has finished, and no send has failed, the last
\* snapshot that an attached connection received is the session as it is in
\* the store.
C20_ConvergesWhenQuiet ==
    (AllFinished /\ NoSendFailed) =>
        \A w \in Sockets :
            ws[w].pc = "open" =>
                Snapshots(w)[Len(Snapshots(w))]
                    = StatePayload(sessions[ws[w].session_id])

\* the step is a send to a connection or a write to a file by request r
DoesIO(r) ==
    /\ req'[r] # req[r]
    /\ \/ received' # received
       \/ req'[r].chunks < req[r].chunks

\* C19: a handler does no send and no file write while it holds the store's
\* lock: the holder of the lock is not suspended in a send or in the reading
\* of the upload, no step that sends or writes is a step of the holder, and
\* when upload_map is in the section of set_map_image its file is written.
C19_NoIOInsideLock ==
    /\ [](\A r \in Reqs :
            lock = r =>
                /\ req[r].pc \notin {"uploading", "reading", "sending"}
                /\ req[r].pc = "set_map_image" => req[r].chunks = 0)
    /\ [][\A r \in Reqs : DoesIO(r) => (lock # r /\ lock' # r)]_vars

\* C19 witness: upload_map is in the section of set_map_image with its file
\* written, while another request is suspended in a send
C19_Witness ==
    \E r1, r2 \in Reqs :
        /\ lock = r1 /\ req[r1].pc = "set_map_image"
        /\ req[r2].pc = "sending"


\* C21: in every session, and so after every successful mutation, the token
\* list and token_order have the same length and the i-th token's id is
\* token_order[i]: the token list is itself in the order of the order list.
C21_TokensFollowOrder ==
    \A k \in DOMAIN sessions :
        /\ Len(sessions[k].tokens) = Len(sessions[k].token_order)
        /\ \A i \in 1..Len(sessions[k].tokens) :
               sessions[k].tokens[i].id = sessions[k].token_order[i]

\* C21 witness: a reorder has moved the token list itself: the tokens
\* created as 1, 2, 3 are stored as 2, 1, 3
C21_Witness ==
    /\ last.op = "set_token_order"
    /\ last.err = ""
    /\ \E k \in DOMAIN sessions :
          /\ Len(sessions[k].tokens) = 3
          /\ sessions[k].tokens[1].id = 2
          /\ sessions[k].tokens[2].id = 1
          /\ sessions[k].tokens[3].id = 3

\* the sockets registered whose URL named the session k in either case
Subscribers(k) ==
    {w \in Sockets : /\ Upper(ws[w].path) = k
                     /\ \E key \in DOMAIN connections : w \in connections[key]}

\* a socket is registered under the id of a session only, and under the
\* upper-case form of the id its URL named
RegisteredUnderCanonicalId ==
    \A key \in DOMAIN connections :
        /\ key \in DOMAIN sessions
        /\ sessions[key].id = key
        /\ \A w \in connections[key] : key = Upper(ws[w].path)

\* a socket is sent the snapshots of the session its URL named and no others
NoSnapshotOfAnotherSession ==
    \A w \in Sockets :
        \A i \in DOMAIN received[w] :
            received[w][i].payload.id = Upper(ws[w].path)

\* C22: routing is case-insensitive.  A socket attached through any case
\* variant of a session id is registered under the upper-case id; a mutation
\* made through any case variant lists as its broadcast's targets exactly the
\* sockets registered for that session; and no socket is sent a snapshot of a
\* session other than its own.
C22_RoutingIgnoresCase ==
    /\ []RegisteredUnderCanonicalId
    /\ []NoSnapshotOfAnotherSession
    /\ [][\A r \in Reqs :
            (req[r].pc = "idle" /\ req'[r].commit # 0
                /\ req'[r].op # "create_session") =>
               LET k == Upper(Get(req'[r].arg))
               IN /\ req'[r].pc = "sending"
                        => Range(req'[r].targets) = Subscribers(k)
                  /\ (req'[r].pc = "done" /\ req'[r].err = "")
                        => Subscribers(k) = {}]_vars

\* C22 witness: socket 1 attached as "a" and socket 2 as "b"; a map url set
\* through "A" was sent to socket 1 after its first snapshot and not to
\* socket 2
C22_Witness ==
    /\ ws[1].pc = "open" /\ ws[1].path = <<"a">>
    /\ ws[2].pc = "open" /\ ws[2].path = <<"b">>
    /\ connections = [k \in {<<"A">>, <<"B">>} |->
                         IF k = <<"A">> THEN {1} ELSE {2}]
    /\ \E r \in Reqs :
          /\ req[r].op = "set_map_url"
          /\ req[r].arg = Some(<<"A">>)
          /\ req[r].pc = "done"
          /\ req[r].err = ""
    /\ Len(received[1]) = 2
    /\ received[1][2].payload.id = <<"A">>
    /\ received[1][2].payload.map.image_url # received[1][1].payload.map.image_url
    /\ Len(received[2]) = 1
    /\ received[2][1].payload.id = <<"B">>

=============================================================================
